---------------------------- MODULE Spec2Model ----------------------------
(***************************************************************************)
(* State-machine model of oqtopus' ModuleWidget (gui/module_widget.py),    *)
(* the background ModuleOperationTask it drives and the PUM migration      *)
(* engine the task runs against one PostgreSQL connection.                 *)
(*                                                                         *)
(* The interactive (GUI) thread runs the click handlers, the public        *)
(* setters and the two callbacks; the worker thread runs one operation at  *)
(* a time.  Both use the same psycopg connection, whose server-side        *)
(* session is modelled as a committed state, a session view holding the    *)
(* uncommitted changes, and a transaction status.                          *)
(***************************************************************************)
EXTENDS Integers, Sequences, FiniteSets, TLC

\* ------------------------------------------------------------------ bounds
\* Highest version step a configuration of the model declares.
MaxVersion == 3
\* Number of operations the task's thread runs in one behaviour.
MaxOps == 1
\* Number of __startOperation calls in one behaviour; the calls beyond MaxOps
\* are made while an operation is running.
MaxStarts == 2
\* Number of operations a direct caller of the engine runs in one behaviour.
MaxApiOps == 3

\* Change units of one version step.
UnitsPerStep == 1

\* ------------------------------------------------------- program constants
\* Python's None (a record, so that it compares with every other value).
None == [none |-> TRUE]

Versions == 1..MaxVersion

\* Module ids: the module the packages belong to and another module.
ModuleIds == {"m1", "m2"}

\* The module packages a user can select.  id is module.id of the selected
\* module, cfg_module the id written in the package's .pum.yaml,
\* last_version the highest version step of that configuration, uninstall
\* whether it declares uninstall hooks, type the package source, prerelease
\* the flag of a release marked as prerelease, loads whether
\* datamodel/.pum.yaml exists and PumConfig accepts it.
Packages ==
    { [name |-> "rel1", id |-> "m1", cfg_module |-> "m1", last_version |-> 1,
       uninstall |-> TRUE, type |-> "release", prerelease |-> FALSE, loads |-> TRUE],
      [name |-> "zipN", id |-> "m1", cfg_module |-> "m1", last_version |-> MaxVersion,
       uninstall |-> FALSE, type |-> "zip", prerelease |-> FALSE, loads |-> TRUE],
      [name |-> "preX", id |-> "m1", cfg_module |-> "m2", last_version |-> 1,
       uninstall |-> TRUE, type |-> "release", prerelease |-> TRUE, loads |-> TRUE],
      [name |-> "bad", id |-> "m1", cfg_module |-> "m1", last_version |-> 1,
       uninstall |-> TRUE, type |-> "release", prerelease |-> FALSE, loads |-> FALSE] }

\* The PumConfig built from a package's .pum.yaml.
PumConfig(p) ==
    [module |-> p.cfg_module, last_version |-> p.last_version,
     uninstall |-> p.uninstall, pkg |-> p.name]

\* The one database connection of the model.
Connections == {[name |-> "c1"]}

Operations == {"install", "upgrade", "uninstall", "roles", "drop_app", "recreate_app"}

Pages == {"install", "upgrade", "maintain"}

VARIABLES
    current_module_package,   \* ModuleWidget.__current_module_package
    database_connection,      \* ModuleWidget.__database_connection
    pum_config,               \* ModuleWidget.__pum_config
    ui,                       \* enabled/visible flags and current page
    cancel_timer,             \* __cancel_timeout_timer is active
    gui_block,                \* transaction block the upgrade handler still holds
    task,                     \* fields of the ModuleOperationTask object
    worker,                   \* the task's thread: position and captured arguments
    signals,                  \* queued signalFinished emissions
    db,                       \* the database behind the connection
    msg,                      \* what the last GUI action told the user ("" nothing)
    ops_started,              \* number of __startOperation calls so far
    run                       \* observation of the worker's last run (no effect on the program)

vars == <<current_module_package, database_connection, pum_config, ui, cancel_timer,
          gui_block, task, worker, signals, db, msg, ops_started, run>>


\* ------------------------------------------------------------ role manager
\* Access levels of a role on the module's schema, ordered none < read < write.
Levels == {"none", "read", "write"}
Rank == [none |-> 0, read |-> 1, write |-> 2]

\* SchemaPermissionStatus.satisfied: the actual level is at least the
\* required one.
Satisfied(actual, required) == Rank[actual] >= Rank[required]

\* The level a role holds after a GRANT of `level`: grants only add.
Granted(actual, level) == IF Satisfied(actual, level) THEN actual ELSE level

\* RoleManager.roles: the declared roles with the level each requires.
RoleDefinitions == [viewer |-> "read"]
ExpectedRoles == DOMAIN RoleDefinitions

\* The suffixes a deployment may use, and the name of the specific variant
\* of a declared role ("<role>_<suffix>"); "" stands for no suffix.
Suffixes == {"s1"}
SpecificName == [viewer |-> "viewer_s1"]
RoleName(role, suffix) == IF suffix = "" THEN role ELSE SpecificName[role]
ConfiguredNames == ExpectedRoles \cup {SpecificName[g] : g \in ExpectedRoles}

\* Roles of the cluster that the config does not declare.
OtherRoles == {"alice", "ext"}
RoleNames == ConfiguredNames \cup OtherRoles

\* The role catalog: the roles that exist, those with LOGIN, the level each
\* holds on the schema, and the memberships <<member, group>>.
NoRoles ==
    [names |-> {}, login |-> {}, access |-> [n \in RoleNames |-> "none"],
     member |-> {}]

\* RoleManager.create_roles(connection, suffix, grant): the generic roles
\* are created in every case; with a suffix the specific roles are created
\* too and carry the declared grants, and with `grant` each generic role
\* becomes a member of its specific role.  Roles that exist are kept and
\* their grants applied again.
CreateRoles(r, suffix, grant) ==
    LET carriers == {RoleName(g, suffix) : g \in ExpectedRoles}
        levels == [n \in RoleNames |->
                      IF n \in carriers
                      THEN Granted(r.access[n],
                                   RoleDefinitions[CHOOSE g \in ExpectedRoles :
                                                      RoleName(g, suffix) = n])
                      ELSE r.access[n]]
        memberships == IF suffix # "" /\ grant
                       THEN {<<g, RoleName(g, suffix)>> : g \in ExpectedRoles}
                       ELSE {}
    IN  [names |-> r.names \cup ExpectedRoles \cup carriers,
         login |-> r.login,
         access |-> levels,
         member |-> r.member \cup memberships]

\* RoleManager.revoke_permissions(connection, roles, suffix): every schema
\* grant of the named roles is revoked; the roles stay.  The empty set
\* stands for roles=None, which means all declared roles.
TargetRoles(roles, suffix) ==
    {RoleName(g, suffix) : g \in (IF roles = {} THEN ExpectedRoles ELSE roles)}
RevokePermissions(r, roles, suffix) ==
    [r EXCEPT !.access = [n \in RoleNames |->
                             IF n \in TargetRoles(roles, suffix) THEN "none" ELSE @[n]]]

\* DROP ROLE: the role goes with its attributes and its memberships.
DropRole(r, gone) ==
    [names |-> r.names \ gone,
     login |-> r.login \ gone,
     access |-> [n \in RoleNames |-> IF n \in gone THEN "none" ELSE r.access[n]],
     member |-> {m \in r.member : m[1] \notin gone /\ m[2] \notin gone}]

\* RoleManager.drop_roles(connection, roles, suffix): permissions revoked,
\* then the roles dropped.
DropRoles(r, roles, suffix) ==
    DropRole(RevokePermissions(r, roles, suffix), TargetRoles(roles, suffix))

\* RoleManager.grant_to / revoke_from(connection, to, roles, suffix):
\* membership of a login role in the named configured roles.
GrantTo(r, to, roles, suffix) ==
    [r EXCEPT !.member = @ \cup {<<to, n>> : n \in TargetRoles(roles, suffix)}]
RevokeFrom(r, from_role, roles, suffix) ==
    [r EXCEPT !.member = @ \ {<<from_role, n>> : n \in TargetRoles(roles, suffix)}]

\* RoleManager.create_login_role / drop_login_role(connection, name).
CreateLoginRole(r, name) ==
    [r EXCEPT !.names = @ \cup {name}, !.login = @ \cup {name}]
DropLoginRole(r, name) == DropRole(r, {name})

\* RoleManager.login_roles / members_of: catalog queries.
LoginRoles(r) == r.login
MembersOf(r, role_name) == {m[1] : m \in {x \in r.member : x[2] = role_name}}

\* A server whose create_roles issues a plain CREATE ROLE.
RoleErrorPlainCreate(r, call, names) ==
    IF call \in {"create_login_role", "create_roles"}
    THEN IF names \cap r.names # {} THEN "DuplicateObject" ELSE ""
    ELSE IF names \subseteq r.names THEN "" ELSE "UndefinedObject"

\* The error a role operation on the roles `names` ends with, "" when it
\* goes through: create_roles skips the roles that exist, the CREATE ROLE of
\* create_login_role does not, and a grant, revoke or drop needs its roles
\* to exist.
RoleError(r, call, names) ==
    IF call = "create_login_role"
    THEN IF names \cap r.names # {} THEN "DuplicateObject" ELSE ""
    ELSE IF call = "create_roles" THEN ""
    ELSE IF names \subseteq r.names THEN "" ELSE "UndefinedObject"

\* RoleStatus of a configured role: the declared role it stands for, its
\* suffix and whether its grants satisfy the declared level.
DeclaredRole(name) == CHOOSE g \in ExpectedRoles : name \in {g, SpecificName[g]}
RoleStatus(r, name) ==
    [name |-> name, role |-> DeclaredRole(name),
     is_suffixed |-> name \notin ExpectedRoles,
     suffix |-> IF name \in ExpectedRoles THEN "" ELSE CHOOSE s \in Suffixes : TRUE,
     login |-> name \in r.login,
     satisfied |-> Satisfied(r.access[name], RoleDefinitions[DeclaredRole(name)])]

\* The entry of a role outside the configuration.
OtherStatus(r, name) ==
    [name |-> name, login |-> name \in r.login,
     granted_to |-> {m[2] : m \in {x \in r.member : x[1] = name}}]

\* The roles of the catalog by category.  configured: a declared role or a
\* suffixed variant of one; grantee: a login role that is a member of a
\* configured role; unknown: schema access, and neither configured nor
\* grantee; other login roles: login and no schema access.
Configured(r) == r.names \cap ConfiguredNames
Grantees(r) ==
    {n \in (r.names \cap r.login) \ Configured(r) :
        \E g \in Configured(r) : <<n, g>> \in r.member}
Unknowns(r) ==
    {n \in r.names \ (Configured(r) \cup Grantees(r)) : r.access[n] # "none"}
OtherLogins(r) ==
    {n \in (r.names \cap r.login) \ (Configured(r) \cup Grantees(r)) :
        r.access[n] = "none"}

\* RoleManager.roles_inventory(connection, include_superusers=True).  A
\* declared role counts as missing when neither it nor a suffixed variant
\* of it exists.
RolesInventory(r) ==
    [expected_roles |-> ExpectedRoles,
     configured_roles |-> {RoleStatus(r, n) : n \in Configured(r)},
     missing_roles |-> {g \in ExpectedRoles :
                           g \notin r.names /\ SpecificName[g] \notin r.names},
     grantee_roles |-> {OtherStatus(r, n) : n \in Grantees(r)},
     unknown_roles |-> {OtherStatus(r, n) : n \in Unknowns(r)},
     other_login_roles |-> OtherLogins(r)]

\* ------------------------------------------------------ RolesManageDialog
\* A dialog that lists a suffixed role among the generic roles as well.
PopulateSuffixedAsGeneric(result) ==
    LET Row(rs) == [name |-> rs.name,
                    status |-> IF rs.satisfied THEN "ok" ELSE "permissions mismatch"]
    IN  [summary |-> IF result.configured_roles # {} THEN "counts" ELSE "no_roles",
         generic |-> {Row(rs) : rs \in result.configured_roles},
         specific |-> {Row(rs) : rs \in {x \in result.configured_roles : x.is_suffixed}},
         grantee |-> {rs.name : rs \in result.grantee_roles},
         unknown |-> {rs.name : rs \in result.unknown_roles},
         login |-> result.other_login_roles]

\* RolesManageDialog._populate(result): the summary label and the rows of
\* the tree, group by group.  A row of a module role carries its status.
Populate(result) ==
    LET bad_perms == {rs \in result.configured_roles : ~rs.satisfied}
        generic_roles == {rs \in result.configured_roles : ~rs.is_suffixed}
        specific_roles == {rs \in result.configured_roles : rs.is_suffixed}
        suffixes == {rs.suffix : rs \in specific_roles}
        missing_generic == {name \in result.expected_roles :
                               name \notin {rs.role : rs \in generic_roles}}
        missing_specific ==
            {RoleName(name, suffix) : name \in result.expected_roles, suffix \in suffixes}
            \ {rs.name : rs \in specific_roles}
        Row(rs) == [name |-> rs.name,
                    status |-> IF rs.satisfied THEN "ok" ELSE "permissions mismatch"]
    IN  [summary |-> IF result.missing_roles # {} \/ bad_perms # {} THEN "problems"
                     ELSE IF result.configured_roles # {} THEN "counts"
                     ELSE "no_roles",
         generic |-> {Row(rs) : rs \in generic_roles}
                     \cup {[name |-> name, status |-> "missing"] : name \in missing_generic},
         specific |-> {Row(rs) : rs \in specific_roles}
                      \cup {[name |-> name, status |-> "missing"] : name \in missing_specific},
         grantee |-> {rs.name : rs \in result.grantee_roles},
         unknown |-> {rs.name : rs \in result.unknown_roles},
         login |-> result.other_login_roles]

\* RolesManageDialog._refresh(): the inventory is read inside a transaction
\* block and shown.
Refresh(d) == Populate(RolesInventory(d.pending.roles))

\* ---------------------------------------------------------------- database
\* One state of the database: the ledger record (None when the migration
\* table holds no row) and the schema objects the change units created, one
\* per unit <<version, unit>>.
EmptyDb == [ledger |-> None, objects |-> {}, roles |-> NoRoles]

\* A ledger row written by a PUM older than 1.3: it carries no module id.
\* The declared role exists from that time, without grants on the schema.
LegacyDb ==
    [ledger |-> [module |-> "", baseline |-> 1, beta_testing |-> FALSE,
                 installed_date |-> 0, upgrade_date |-> 0,
                 parameters |-> [std |-> 0, app |-> 0]],
     objects |-> {<<1, u>> : u \in 1..UnitsPerStep},
     roles |-> [NoRoles EXCEPT !.names = {"viewer"}]]

\* psycopg: the first statement on an idle connection opens a transaction.
Begin(d) == [d EXCEPT !.tx_open = TRUE]

\* Connection.commit(): the session's changes become the committed state.
Commit(d) == [committed |-> d.pending, pending |-> d.pending, tx_open |-> FALSE]

\* Connection.rollback(): the session's uncommitted changes are dropped.
Rollback(d) == [committed |-> d.committed, pending |-> d.committed, tx_open |-> FALSE]

\* Connection.transaction().__enter__: BEGIN on an idle connection (the block
\* is the outermost one), SAVEPOINT inside a transaction already open.
TransactionBlock(d) == IF d.tx_open THEN "savepoint" ELSE "outer"

\* Connection.transaction().__exit__ without exception: the outermost block
\* COMMITs whatever the session did since BEGIN, a nested one releases its
\* savepoint.
ExitBlock(d, block) == IF block = "outer" /\ d.tx_open THEN Commit(d) ELSE d

\* SchemaMigrations.exists / baseline / migration_details: reads of the
\* session's view.
Exists(d) == d.pending.ledger # None
Baseline(d) == d.pending.ledger.baseline
MigrationDetails(d) == d.pending.ledger

\* A module installed at version 1 in beta testing mode, with its role
\* created, granted write access by hand and given to a login role.
BetaDb ==
    [ledger |-> [module |-> "m1", baseline |-> 1, beta_testing |-> TRUE,
                 installed_date |-> 0, upgrade_date |-> 0,
                 parameters |-> [std |-> 0, app |-> 0]],
     objects |-> {<<1, u>> : u \in 1..UnitsPerStep},
     roles |-> [names |-> {"viewer", "alice"}, login |-> {"alice"},
                access |-> [n \in RoleNames |-> IF n = "viewer" THEN "write" ELSE "none"],
                member |-> {<<"alice", "viewer">>}]]

\* ------------------------------------------------------------------ widget
\* Widget state right after ModuleWidget.__init__: every button enabled (the
\* .ui defaults), the install page current, cancel button hidden.
\* beta_checked and beta_enabled are the beta testing checkbox of the current
\* page, page the current page of the stacked widget while it is visible:
\* the checkbox of a page is configured each time the page is shown, and a
\* page is made current each time the stacked widget is shown, so what they
\* hold while out of sight is never read.
InitialUi ==
    [install_btn |-> TRUE, upgrade_btn |-> TRUE, roles_btn |-> TRUE,
     drop_app_btn |-> TRUE, recreate_app_btn |-> TRUE,
     uninstall_button |-> TRUE, uninstall_button_maintain |-> TRUE,
     stacked_enabled |-> TRUE, stacked_visible |-> TRUE, page |-> "install",
     cancel_visible |-> FALSE, cancel_enabled |-> TRUE,
     beta_checked |-> FALSE, beta_enabled |-> TRUE,
     mismatch |-> FALSE]

\* __setOperationInProgress(in_progress).
SetOperationInProgress(u, in_progress) ==
    [u EXCEPT !.install_btn = ~in_progress,
              !.upgrade_btn = ~in_progress,
              !.roles_btn = ~in_progress,
              !.uninstall_button = ~in_progress,
              !.stacked_enabled = ~in_progress,
              !.cancel_visible = in_progress,
              !.cancel_enabled = in_progress]

\* __resetOperationUI().
ResetOperationUI(u) == SetOperationInProgress(u, FALSE)

\* __show_no_module_selected_page() and __show_error_state(): the stacked
\* widget is hidden and both uninstall buttons are disabled.
ShowNothing(u) ==
    [u EXCEPT !.stacked_visible = FALSE,
              !.page = "none",
              !.beta_checked = FALSE,
              !.beta_enabled = FALSE,
              !.uninstall_button = FALSE,
              !.uninstall_button_maintain = FALSE]

\* Variant of the checkbox configuration that looks at the source type only.
ConfigureBetaTestingCheckboxByType(pkg) ==
    IF pkg.type = "zip" THEN <<TRUE, TRUE>>
    ELSE IF pkg.type \in {"branch", "pull_request"} THEN <<TRUE, FALSE>>
    ELSE <<FALSE, FALSE>>

\* __configure_beta_testing_checkbox(): <<checked, enabled>> by package source.
ConfigureBetaTestingCheckbox(pkg) ==
    IF pkg.type = "zip" THEN <<TRUE, TRUE>>
    ELSE IF pkg.type \in {"branch", "pull_request"} \/ pkg.prerelease THEN <<TRUE, FALSE>>
    ELSE <<FALSE, FALSE>>

\* __configure_uninstall_button().
ConfigureUninstallButton(u, cfg) ==
    [u EXCEPT !.uninstall_button = (cfg # None /\ cfg.uninstall),
              !.uninstall_button_maintain = (cfg # None /\ cfg.uninstall)]

\* __show_install_page().
ShowInstallPage(u, pkg) ==
    [u EXCEPT !.beta_checked = ConfigureBetaTestingCheckbox(pkg)[1],
              !.beta_enabled = ConfigureBetaTestingCheckbox(pkg)[2],
              !.page = "install",
              !.stacked_visible = TRUE,
              !.mismatch = FALSE]

\* __show_upgrade_page().
ShowUpgradePage(u, pkg) ==
    [u EXCEPT !.beta_checked = ConfigureBetaTestingCheckbox(pkg)[1],
              !.beta_enabled = ConfigureBetaTestingCheckbox(pkg)[2],
              !.page = "upgrade",
              !.stacked_visible = TRUE,
              !.upgrade_btn = TRUE,
              !.mismatch = FALSE]

\* __show_maintain_page().
ShowMaintainPage(u) ==
    [u EXCEPT !.drop_app_btn = TRUE,
              !.recreate_app_btn = TRUE,
              !.roles_btn = TRUE,
              !.uninstall_button_maintain = TRUE,
              !.beta_checked = FALSE,
              !.beta_enabled = FALSE,
              !.page = "maintain",
              !.stacked_visible = TRUE,
              !.mismatch = FALSE]

\* __show_version_mismatch_page().
ShowVersionMismatchPage(u) ==
    [u EXCEPT !.drop_app_btn = FALSE,
              !.recreate_app_btn = FALSE,
              !.roles_btn = FALSE,
              !.uninstall_button_maintain = FALSE,
              !.beta_checked = FALSE,
              !.beta_enabled = FALSE,
              !.page = "maintain",
              !.stacked_visible = TRUE,
              !.mismatch = TRUE]

\* A comparison that takes equal versions for an upgrade.
PageForEqualAsUpgrade(target_version, baseline_version) ==
    IF target_version >= baseline_version THEN "upgrade" ELSE "mismatch"

\* The comparison of __updateModuleInfo: which page an installed module gets.
PageFor(target_version, baseline_version) ==
    IF target_version > baseline_version THEN "upgrade"
    ELSE IF target_version = baseline_version THEN "maintain"
    ELSE "mismatch"

\* __updateModuleInfo(): the widget flags after a refresh that reads the
\* session view d of the connection.
UpdateModuleInfo(u, pkg, conn, cfg, d) ==
    IF pkg = None \/ conn = None \/ cfg = None THEN ShowNothing(u)
    ELSE LET u1 == ConfigureUninstallButton([u EXCEPT !.stacked_enabled = TRUE], cfg)
         IN  IF Exists(d)
             THEN LET page == PageFor(cfg.last_version, Baseline(d))
                  IN  IF page = "upgrade" THEN ShowUpgradePage(u1, pkg)
                      ELSE IF page = "maintain" THEN ShowMaintainPage(u1)
                      ELSE ShowVersionMismatchPage(u1)
             ELSE ShowInstallPage(u1, pkg)

\* A button takes a click when it is enabled, its page is the current one and
\* the stacked widget holding the pages is enabled and visible.
Clickable(u, button, page) ==
    u[button] /\ u.stacked_enabled /\ u.stacked_visible /\ u.page = page

\* ModuleOperationTask.isRunning().
IsRunning(w) == w.pc # "idle"

\* ------------------------------------------------------------------ engine
\* Parameter values a user can enter: [std] a standard parameter, [app] an
\* app-only one.
ParamInputs == {[std |-> 0, app |-> 0], [std |-> 1, app |-> 1]}

\* The parameters of the operations whose modelled effect does not depend on
\* them.
NoParameters == [std |-> 0, app |-> 0]

NoOptions ==
    [beta_testing |-> FALSE, force |-> FALSE, allow_multiple_modules |-> FALSE,
     roles |-> FALSE]

\* Pending steps that start at the baseline itself.
UnitSeqFromBaseline(from, to) ==
    IF to < from THEN << >>
    ELSE [i \in 1..((to - from + 1) * UnitsPerStep) |->
             <<from + ((i - 1) \div UnitsPerStep), 1 + ((i - 1) % UnitsPerStep)>>]

\* The change units of the version steps from+1 .. to, in execution order.
UnitSeq(from, to) ==
    IF to <= from THEN << >>
    ELSE [i \in 1..((to - from) * UnitsPerStep) |->
             <<from + 1 + ((i - 1) \div UnitsPerStep), 1 + ((i - 1) % UnitsPerStep)>>]

\* The single unit of a hook (uninstall, drop app, create app, roles).
HookUnit(n) == <<0, n>>

\* An engine whose install does not look for an existing record.
PreconditionErrorInstallUnchecked(op, cfg, d, options) ==
    IF op = "upgrade"
    THEN IF ~Exists(d) \/ MigrationDetails(d).module # cfg.module
         THEN "ModuleMismatchError"
         ELSE IF MigrationDetails(d).beta_testing /\ ~options.force
         THEN "BetaTestingError" ELSE ""
    ELSE IF op = "uninstall"
    THEN IF ~cfg.uninstall THEN "NoUninstallDefinedError" ELSE ""
    ELSE ""

\* Upgrader.install/upgrade/uninstall: the check made before any unit runs;
\* "" when the operation may proceed.
PreconditionError(op, cfg, d, options) ==
    IF op = "install"
    THEN IF Exists(d) /\ ~options.allow_multiple_modules
         THEN "AlreadyInstalledError" ELSE ""
    ELSE IF op = "upgrade"
    THEN IF ~Exists(d) \/ MigrationDetails(d).module # cfg.module
         THEN "ModuleMismatchError"
         ELSE IF MigrationDetails(d).beta_testing /\ ~options.force
         THEN "BetaTestingError" ELSE ""
    ELSE IF op = "uninstall"
    THEN IF ~cfg.uninstall THEN "NoUninstallDefinedError" ELSE ""
    ELSE ""

\* The units an operation executes, in order.
UnitsOf(op, cfg, d) ==
    IF op = "install" THEN UnitSeq(0, cfg.last_version)
    ELSE IF op = "upgrade" THEN UnitSeq(Baseline(d), cfg.last_version)
    ELSE IF op = "recreate_app" THEN <<HookUnit(1), HookUnit(2)>>
    ELSE <<HookUnit(1)>>

\* The effect of one successful change unit on the session view.
ApplyUnit(op, unit, state) ==
    IF op \in {"install", "upgrade"}
    THEN [state EXCEPT !.objects = @ \cup {unit}]
    ELSE IF op = "uninstall" THEN [state EXCEPT !.objects = {}]
    ELSE IF op = "roles" THEN [state EXCEPT !.roles = CreateRoles(@, "", TRUE)]
    ELSE state

\* An engine that creates roles only through the roles operation.
ProvisionRolesNever(op, options, applied, state) == state

\* Upgrader.install / upgrade with roles=True: after the change units the
\* declared roles are created and granted, in the transaction of the
\* operation.  An upgrade without pending steps does nothing.
ProvisionRoles(op, options, applied, state) ==
    IF options.roles /\ (op = "install" \/ (op = "upgrade" /\ applied # << >>))
    THEN [state EXCEPT !.roles = CreateRoles(@, "", TRUE)]
    ELSE state

\* A ledger write whose upgrade stores every parameter value it was passed.
WriteLedgerAllParameters(op, cfg, options, parameters, stamp, applied, state) ==
    IF op = "install"
    THEN [state EXCEPT !.ledger =
             [module |-> cfg.module, baseline |-> cfg.last_version,
              beta_testing |-> options.beta_testing, installed_date |-> stamp,
              upgrade_date |-> 0, parameters |-> parameters]]
    ELSE IF op = "upgrade" /\ applied # << >>
    THEN [state EXCEPT !.ledger.baseline = cfg.last_version,
                       !.ledger.beta_testing = options.beta_testing,
                       !.ledger.upgrade_date = stamp,
                       !.ledger.parameters = parameters]
    ELSE IF op = "uninstall" THEN [state EXCEPT !.ledger = None]
    ELSE state

\* The ledger write that ends a successful operation.
WriteLedger(op, cfg, options, parameters, stamp, applied, state) ==
    IF op = "install"
    THEN [state EXCEPT !.ledger =
             [module |-> cfg.module, baseline |-> cfg.last_version,
              beta_testing |-> options.beta_testing, installed_date |-> stamp,
              upgrade_date |-> 0, parameters |-> parameters]]
    ELSE IF op = "upgrade" /\ applied # << >>
    THEN [state EXCEPT !.ledger.baseline = cfg.last_version,
                       !.ledger.beta_testing = options.beta_testing,
                       !.ledger.upgrade_date = stamp,
                       !.ledger.parameters.app = parameters.app]
    ELSE IF op = "uninstall" THEN [state EXCEPT !.ledger = None]
    ELSE state

\* ------------------------------------------------------------------- task
\* The thread of the task: where it is, the operation and the arguments it
\* took from the task object, the units still to execute.
IdleWorker == [pc |-> "idle", op |-> "none", args |-> None, units |-> << >>]

\* The task object after construction.  args are the arguments of the last
\* start_* call until the thread takes them; nothing reads them afterwards,
\* so the model drops them then.  canceled is the cancel flag while a run can
\* read it: the next start_* clears it before an idle task reads it, so the
\* model holds it FALSE on an idle task.
InitialTask == [operation |-> "none", canceled |-> FALSE, args |-> None]

\* __startOperation with the upgrade branch calling start_install.
StartMethodUpgradeAsInstall(operation) ==
    IF operation = "upgrade" THEN "install" ELSE operation

\* The start_* method __startOperation calls for an operation name; the
\* task runs the operation of that method.
StartMethod(operation) ==
    IF operation = "install" THEN "install"
    ELSE IF operation = "upgrade" THEN "upgrade"
    ELSE IF operation = "uninstall" THEN "uninstall"
    ELSE IF operation = "roles" THEN "roles"
    ELSE IF operation = "drop_app" THEN "drop_app"
    ELSE IF operation = "recreate_app" THEN "recreate_app"
    ELSE "none"

\* ModuleOperationTask.start_*: the arguments are stored on the task object,
\* the cancel flag is cleared.  A thread that already took its arguments
\* does not read the new ones.
StoreArguments(operation, cfg, parameters, options, stamp, w) ==
    [operation |-> StartMethod(operation), canceled |-> FALSE,
     args |-> IF w.pc = "unit" THEN None
              ELSE [config |-> cfg, options |-> options, parameters |-> parameters,
                    stamp |-> stamp]]

\* ModuleOperationTask.cancel().
Cancel(t, w) == IF IsRunning(w) THEN [t EXCEPT !.canceled = TRUE] ELSE t

\* The task object when its thread has ended.
Ended(t) == [t EXCEPT !.canceled = FALSE]

\* QThread.start(): a thread that is already running is left alone.
StartThread(w) == IF IsRunning(w) THEN w ELSE [IdleWorker EXCEPT !.pc = "pending"]

\* The observation before any run: the operation asked for by the call of
\* __startOperation whose arguments the thread takes, the one the
\* worker ran, the committed database when it began, the last version of its
\* config, the units it completed and how it ended.
NoRun ==
    [requested |-> "none", op |-> "none", before |-> EmptyDb, target |-> 0,
     applied |-> << >>, outcome |-> "none"]

\* ------------------------------------------------------------ click checks
\* The checks every click handler starts with; "" when they pass.
MissingError(pkg, conn, cfg) ==
    IF pkg = None THEN "select_package"
    ELSE IF conn = None THEN "select_database"
    ELSE IF cfg = None THEN "no_config"
    ELSE ""

\* Handlers that do not compare the config's module id with the module's.
ConfigErrorIdUnchecked(pkg, conn, cfg) == MissingError(pkg, conn, cfg)

\* Install and upgrade: the PUM config's module id must be the selected
\* module's id.
ConfigError(pkg, conn, cfg) ==
    IF MissingError(pkg, conn, cfg) # "" THEN MissingError(pkg, conn, cfg)
    ELSE IF cfg.module # pkg.id THEN "config_module_mismatch"
    ELSE ""

\* Upgrade: the test on the module id recorded in the database.
ModuleIdMismatch(installed_module_id, pum_module_id) ==
    installed_module_id # "" /\ installed_module_id # pum_module_id

\* An upgrade handler that never sets the force option.
UpgradeForceNever(installed_beta_testing) == FALSE

\* Upgrade: the force option is the beta_testing flag of the installed record.
UpgradeForce(installed_beta_testing) == installed_beta_testing

\* Every click handler starting its operation inside a transaction block.
HandlerBlockAlways(operation, d) == TransactionBlock(d)

\* The transaction block the click handler of an operation still holds when
\* it calls __startOperation: the upgrade handler starts the operation inside
\* its "with connection.transaction()" block, the others hold none.
HandlerBlock(operation, d) ==
    IF operation = "upgrade" THEN TransactionBlock(d) ELSE "none"

\* allow_multiple_modules of the install options: the stored setting.
InstallAllowMultiple(setting) == setting

\* ------------------------------------------------------------------- Init
Init ==
    /\ current_module_package = None
    /\ database_connection = None
    /\ pum_config = None
    /\ ui = InitialUi
    /\ cancel_timer = FALSE
    /\ gui_block = "none"
    /\ task = InitialTask
    /\ worker = IdleWorker
    /\ signals = << >>
    /\ \E d \in {EmptyDb, LegacyDb, BetaDb} :
          db = [committed |-> d, pending |-> d, tx_open |-> FALSE]
    /\ msg = ""
    /\ ops_started = 0
    /\ run = NoRun

GuiIdle == gui_block = "none"

\* __startOperation(operation, parameters, options), called by a handler
\* that leaves the widget flags u0 and the connection d0.
StartOperation(operation, parameters, options, u0, d0) ==
    /\ ops_started < MaxStarts
    /\ ops_started < MaxOps \/ IsRunning(worker)
    /\ ui' = SetOperationInProgress(u0, TRUE)
    /\ task' = StoreArguments(operation, pum_config, parameters, options,
                               ops_started + 1, worker)
    /\ worker' = StartThread(worker)
    /\ ops_started' = ops_started + 1
    /\ gui_block' = HandlerBlock(operation, db)
    /\ db' = d0
    /\ msg' = ""
    /\ run' = IF worker.pc = "unit" THEN run ELSE [NoRun EXCEPT !.requested = operation]
    /\ UNCHANGED <<current_module_package, database_connection, pum_config,
                   cancel_timer, signals>>

\* A handler that returns without starting anything, after an error message
\* or a declined confirmation.
Return(text, d0) ==
    /\ msg' = text
    /\ db' = d0
    /\ UNCHANGED <<current_module_package, database_connection, pum_config, ui,
                   cancel_timer, gui_block, task, worker, signals, ops_started, run>>

\* The user toggles a beta testing checkbox that is enabled.
ToggleBetaTesting ==
    /\ GuiIdle
    /\ ui.stacked_enabled /\ ui.stacked_visible
    /\ ui.page \in {"install", "upgrade"} /\ ui.beta_enabled
    /\ ui' = [ui EXCEPT !.beta_checked = ~@]
    /\ msg' = ""
    /\ UNCHANGED <<current_module_package, database_connection, pum_config,
                   cancel_timer, gui_block, task, worker, signals, db, ops_started, run>>

\* __installModuleClicked().
InstallClicked ==
    /\ GuiIdle
    /\ Clickable(ui, "install_btn", "install")
    /\ LET err == ConfigError(current_module_package, database_connection, pum_config)
           beta_testing == ui.beta_checked
       IN  IF err # "" THEN Return(err, db)
           ELSE \E reply \in (IF beta_testing THEN {"Yes", "No"} ELSE {"Yes"}),
                   setting \in BOOLEAN, parameters \in ParamInputs,
                   roles_checked \in BOOLEAN :
                   IF reply # "Yes" THEN Return("", db)
                   ELSE StartOperation("install", parameters,
                            [beta_testing |-> beta_testing, force |-> FALSE,
                             allow_multiple_modules |-> InstallAllowMultiple(setting),
                             roles |-> roles_checked],
                            ui, db)

\* __upgradeModuleClicked(), up to the call of __startOperation; the handler
\* is then still inside its transaction block.
UpgradeClicked ==
    /\ GuiIdle
    /\ Clickable(ui, "upgrade_btn", "upgrade")
    /\ LET err == ConfigError(current_module_package, database_connection, pum_config)
           exists == Exists(db)
           installed_module_id == IF exists THEN MigrationDetails(db).module ELSE ""
           installed_beta_testing == IF exists THEN MigrationDetails(db).beta_testing ELSE FALSE
           beta_testing == ui.beta_checked
       IN  IF err # "" THEN Return(err, db)
           ELSE IF exists /\ ModuleIdMismatch(installed_module_id, pum_config.module)
           THEN Return("database_module_mismatch", db)
           ELSE \E confirm \in (IF installed_beta_testing THEN {"Yes", "No"} ELSE {"Yes"}),
                   reply \in (IF beta_testing THEN {"Yes", "No"} ELSE {"Yes"}),
                   parameters \in ParamInputs, roles_checked \in BOOLEAN :
                   IF confirm # "Yes" THEN Return("beta_upgrade_declined", db)
                   ELSE IF reply # "Yes" THEN Return("", db)
                   ELSE StartOperation("upgrade", parameters,
                            [beta_testing |-> beta_testing,
                             force |-> UpgradeForce(installed_beta_testing),
                             allow_multiple_modules |-> FALSE,
                             roles |-> roles_checked],
                            ui, Begin(db))

\* The end of __upgradeModuleClicked(): the transaction block is left after
\* the worker thread was started.
UpgradeBlockExit ==
    /\ gui_block # "none"
    /\ db' = ExitBlock(db, gui_block)
    /\ gui_block' = "none"
    /\ UNCHANGED <<current_module_package, database_connection, pum_config, ui,
                   cancel_timer, task, worker, signals, msg, ops_started, run>>

\* __uninstallModuleClicked(), from either uninstall button.  The baseline
\* is read after the transaction block was left, which opens a transaction
\* on an idle connection.
UninstallClicked ==
    /\ GuiIdle
    /\ \/ Clickable(ui, "uninstall_button", "upgrade")
       \/ Clickable(ui, "uninstall_button_maintain", "maintain")
    /\ LET err == MissingError(current_module_package, database_connection, pum_config)
       IN  IF err # "" THEN Return(err, db)
           ELSE IF ~pum_config.uninstall THEN Return("no_uninstall", db)
           ELSE IF ~Exists(db) THEN Return("exception", db)
           ELSE \E reply \in {"Yes", "No"} :
                   IF reply # "Yes" THEN Return("", Begin(db))
                   ELSE StartOperation("uninstall", NoParameters, NoOptions, ui, Begin(db))

\* __rolesClicked().
RolesClicked ==
    /\ GuiIdle
    /\ Clickable(ui, "roles_btn", "maintain")
    /\ LET err == MissingError(current_module_package, database_connection, pum_config)
       IN  IF err # "" THEN Return(err, db)
           ELSE StartOperation("roles", NoParameters, NoOptions, ui, db)

\* __dropAppClicked().
DropAppClicked ==
    /\ GuiIdle
    /\ Clickable(ui, "drop_app_btn", "maintain")
    /\ LET err == MissingError(current_module_package, database_connection, pum_config)
       IN  IF err # "" THEN Return(err, db)
           ELSE \E reply \in {"Yes", "No"} :
                   IF reply # "Yes" THEN Return("", db)
                   ELSE StartOperation("drop_app", NoParameters, NoOptions, ui, db)

\* __recreateAppClicked().
RecreateAppClicked ==
    /\ GuiIdle
    /\ Clickable(ui, "recreate_app_btn", "maintain")
    /\ LET err == MissingError(current_module_package, database_connection, pum_config)
       IN  IF err # "" THEN Return(err, db)
           ELSE \E accepted \in BOOLEAN :
                   IF ~accepted THEN Return("", db)
                   ELSE StartOperation("recreate_app", NoParameters, NoOptions, ui, db)

\* __cancelOperationClicked().
CancelClicked ==
    /\ GuiIdle
    /\ ui.cancel_visible /\ ui.cancel_enabled
    /\ ui' = [ui EXCEPT !.cancel_enabled = FALSE]
    /\ task' = Cancel(task, worker)
    /\ cancel_timer' = TRUE
    /\ msg' = ""
    /\ UNCHANGED <<current_module_package, database_connection, pum_config,
                   gui_block, worker, signals, db, ops_started, run>>

\* QThread.terminate(): the thread stops where it is.  Its transaction stays
\* open on the connection with the changes made so far; the unit it was
\* executing has taken effect or not.
Terminated(d, w) ==
    IF w.pc = "unit"
    THEN {d, [d EXCEPT !.pending = ApplyUnit(w.op, Head(w.units), @)]}
    ELSE {d}

\* __onCancelTimeout(): the single-shot timer fires.
OnCancelTimeout ==
    /\ GuiIdle
    /\ cancel_timer
    /\ cancel_timer' = FALSE
    /\ IF IsRunning(worker)
       THEN /\ worker' = IdleWorker
            /\ task' = Ended(task)
            /\ db' \in Terminated(db, worker)
            /\ ui' = ResetOperationUI(ui)
            /\ msg' = "terminated"
            /\ run' = IF worker.pc = "pending" THEN run
                      ELSE [run EXCEPT !.outcome = "terminated"]
       ELSE /\ msg' = ""
            /\ UNCHANGED <<worker, task, db, ui, run>>
    /\ UNCHANGED <<current_module_package, database_connection, pum_config,
                   gui_block, signals, ops_started>>

\* A finished handler that reports every result without success.
FailureMessageAlways(error_message) == "failed"

\* __onOperationFinished without success: the "Operation failed" box is shown
\* only for a result that carries an error message.
FailureMessage(error_message) == IF error_message # "" THEN "failed" ELSE ""

\* The operations whose success message reads the PUM config.
ReadsConfig(operation) == operation \in {"install", "upgrade"}

\* __onOperationFinished(success, error_message): the queued signalFinished
\* reaches the widget.  Building the success message dereferences the module
\* package and, for install and upgrade, the PUM config; an exception there
\* ends the handler after the UI reset.
\* Variant of the timer stop that leaves a started timer running.
TimerKeptRunning(timer) == timer

\* __cancel_timeout_timer.stop().
TimerStop(timer) == FALSE

OnOperationFinished ==
    /\ GuiIdle
    /\ signals # << >>
    /\ signals' = Tail(signals)
    /\ cancel_timer' = TimerStop(cancel_timer)
    /\ LET success == Head(signals).success
           error_message == Head(signals).error
           crash == success /\ (current_module_package = None
                                \/ (ReadsConfig(task.operation) /\ pum_config = None))
       IN  IF crash
           THEN /\ ui' = ResetOperationUI(ui)
                /\ msg' = "exception"
           ELSE IF success
           THEN /\ ui' = UpdateModuleInfo(ResetOperationUI(ui), current_module_package,
                                          database_connection, pum_config, db)
                /\ msg' = "success"
           ELSE /\ ui' = ResetOperationUI(ui)
                /\ msg' = FailureMessage(error_message)
    /\ run' = NoRun
    /\ UNCHANGED <<current_module_package, database_connection, pum_config,
                   gui_block, task, worker, db, ops_started>>

\* __packagePrepareGetPUMConfig(): the config the widget holds afterwards.
\* Every failure returns before __pum_config is assigned.
PackagePrepareGetPUMConfig(pkg, cfg) == IF pkg.loads THEN PumConfig(pkg) ELSE cfg

\* setModulePackage(module_package).
SetModulePackage(p) ==
    /\ GuiIdle
    /\ current_module_package' = p
    /\ pum_config' = PackagePrepareGetPUMConfig(p, pum_config)
    /\ ui' = UpdateModuleInfo(ui, p, database_connection, pum_config', db)
    /\ msg' = IF p.loads THEN "" ELSE "cannot_load"
    /\ UNCHANGED <<database_connection, cancel_timer, gui_block, task, worker,
                   signals, db, ops_started, run>>


\* The setters cancel an operation that is running.
CancelIfRunning(t, w) == IF IsRunning(w) THEN Cancel(t, w) ELSE t

\* clearModulePackage().
ClearModulePackage ==
    /\ GuiIdle
    /\ task' = CancelIfRunning(task, worker)
    /\ current_module_package' = None
    /\ pum_config' = None
    /\ ui' = UpdateModuleInfo(ResetOperationUI(ui), None, database_connection, None, db)
    /\ msg' = ""
    /\ UNCHANGED <<database_connection, cancel_timer, gui_block, worker, signals,
                   db, ops_started, run>>

\* close(): a running operation is asked to cancel, not waited for.
Close ==
    /\ GuiIdle
    /\ task' = CancelIfRunning(task, worker)
    /\ UNCHANGED <<current_module_package, database_connection, pum_config, ui,
                   cancel_timer, gui_block, worker, signals, db, msg, ops_started, run>>

\* setDatabaseConnection(connection).
SetDatabaseConnection(c) ==
    /\ GuiIdle
    /\ task' = CancelIfRunning(task, worker)
    /\ database_connection' = c
    /\ ui' = UpdateModuleInfo(ResetOperationUI(ui), current_module_package, c,
                              pum_config, db)
    /\ msg' = ""
    /\ UNCHANGED <<current_module_package, pum_config, cancel_timer, gui_block,
                   worker, signals, db, ops_started, run>>

\* ------------------------------------------------------------------ worker
Emit(success, error) == Append(signals, [success |-> success, error |-> error])

\* The end of a run whose units all succeeded: the ledger is written and
\* the transaction committed.
Finish(w, applied, d) ==
    Commit([d EXCEPT !.pending =
               WriteLedger(w.op, w.args.config, w.args.options, w.args.parameters,
                           w.args.stamp, applied,
                           ProvisionRoles(w.op, w.args.options, applied, @))])

\* ModuleOperationTask.run(), first step: the thread takes the operation and
\* the arguments stored on the task and checks the operation's precondition,
\* whose failure is reported without touching the database; then it opens
\* its transaction.  An operation without units ends here.
WorkerValidate ==
    /\ worker.pc = "pending"
    /\ LET op == task.operation
           d1 == Begin(db)
           err == PreconditionError(op, task.args.config, d1, task.args.options)
           w == [pc |-> "unit", op |-> op, args |-> task.args,
                 units |-> UnitsOf(op, task.args.config, d1)]
           began == [requested |-> run.requested, op |-> op, before |-> db.committed,
                     target |-> task.args.config.last_version,
                     applied |-> << >>, outcome |-> "running"]
       IN  IF err # ""
           THEN /\ db' = db
                /\ worker' = IdleWorker
                /\ task' = Ended([task EXCEPT !.args = None])
                /\ signals' = Emit(FALSE, err)
                /\ run' = [began EXCEPT !.outcome = "rejected"]
           ELSE IF task.canceled
           THEN /\ db' = Rollback(d1)
                /\ worker' = IdleWorker
                /\ task' = Ended([task EXCEPT !.args = None])
                /\ signals' = Emit(FALSE, "")
                /\ run' = [began EXCEPT !.outcome = "cancelled"]
           ELSE IF w.units = << >>
           THEN /\ db' = Finish(w, << >>, d1)
                /\ worker' = IdleWorker
                /\ task' = Ended([task EXCEPT !.args = None])
                /\ signals' = Emit(TRUE, "")
                /\ run' = [began EXCEPT !.outcome = "committed"]
           ELSE /\ db' = d1
                /\ worker' = w
                /\ task' = [task EXCEPT !.args = None]
                /\ signals' = signals
                /\ run' = began
    /\ UNCHANGED <<current_module_package, database_connection, pum_config, ui,
                   cancel_timer, gui_block, msg, ops_started>>

\* A change unit ends.  With a failure the whole transaction is rolled back.
\* With success its effect is in the session view; then the cancel flag is
\* checked, and the next unit starts or, after the last one, the run ends.
WorkerUnitDone ==
    /\ worker.pc = "unit"
    /\ \E ok \in BOOLEAN :
          LET d1 == Begin([db EXCEPT !.pending =
                              ApplyUnit(worker.op, Head(worker.units), @)])
              applied == Append(run.applied, Head(worker.units))
          IN  IF ~ok
              THEN /\ db' = Rollback(db)
                   /\ worker' = IdleWorker
                   /\ task' = Ended(task)
                   /\ signals' = Emit(FALSE, "OperationFailedError")
                   /\ run' = [run EXCEPT !.outcome = "failed"]
              ELSE IF task.canceled
              THEN /\ db' = Rollback(d1)
                   /\ worker' = IdleWorker
                   /\ task' = Ended(task)
                   /\ signals' = Emit(FALSE, "")
                   /\ run' = [run EXCEPT !.applied = applied, !.outcome = "cancelled"]
              ELSE IF Tail(worker.units) = << >>
              THEN /\ db' = Finish(worker, applied, d1)
                   /\ worker' = IdleWorker
                   /\ task' = Ended(task)
                   /\ signals' = Emit(TRUE, "")
                   /\ run' = [run EXCEPT !.applied = applied, !.outcome = "committed"]
              ELSE /\ db' = d1
                   /\ worker' = [worker EXCEPT !.units = Tail(@)]
                   /\ task' = task
                   /\ signals' = signals
                   /\ run' = [run EXCEPT !.applied = applied]
    /\ UNCHANGED <<current_module_package, database_connection, pum_config, ui,
                   cancel_timer, gui_block, msg, ops_started>>

\* The tests install a first version with Upgrader.install(max_version=...)
\* on the widget's connection and commit, while no operation runs.
ExternalInstall(p, max_version) ==
    /\ GuiIdle
    /\ ~IsRunning(worker)
    /\ ~Exists(db)
    /\ p.loads /\ max_version <= p.last_version
    /\ db' = Commit([db EXCEPT !.pending =
                 [ledger |-> [module |-> p.cfg_module, baseline |-> max_version,
                              beta_testing |-> FALSE, installed_date |-> 0,
                              upgrade_date |-> 0, parameters |-> [std |-> 0, app |-> 0]],
                  objects |-> db.pending.objects \cup
                              {UnitSeq(0, max_version)[i] :
                                  i \in DOMAIN UnitSeq(0, max_version)},
                  roles |-> db.pending.roles]])
    /\ UNCHANGED <<current_module_package, database_connection, pum_config, ui,
                   cancel_timer, gui_block, task, worker, signals, msg, ops_started, run>>

\* ------------------------------------------- the engine called directly
\* The configs and options a caller can pass.
ApiConfigs == {PumConfig(p) : p \in {q \in Packages : q.loads}}
ApiOptions ==
    [beta_testing : BOOLEAN, force : BOOLEAN, allow_multiple_modules : BOOLEAN,
     roles : BOOLEAN]

\* A caller starts install, upgrade or uninstall on an idle task and has
\* collected the result of the previous operation.
ApiStart(operation, cfg, parameters, options) ==
    /\ ~IsRunning(worker)
    /\ signals = << >>
    /\ ops_started < MaxApiOps
    /\ task' = StoreArguments(operation, cfg, parameters, options, ops_started + 1, worker)
    /\ worker' = StartThread(worker)
    /\ ops_started' = ops_started + 1
    /\ run' = [NoRun EXCEPT !.requested = operation]
    /\ UNCHANGED <<current_module_package, database_connection, pum_config, ui,
                   cancel_timer, gui_block, signals, db, msg>>

\* The caller requests cancellation of the running operation.
ApiCancel ==
    /\ IsRunning(worker)
    /\ ~task.canceled
    /\ task' = Cancel(task, worker)
    /\ UNCHANGED <<current_module_package, database_connection, pum_config, ui,
                   cancel_timer, gui_block, worker, signals, db, msg, ops_started, run>>

\* The caller collects the result of the operation.
ApiResult ==
    /\ signals # << >>
    /\ signals' = Tail(signals)
    /\ UNCHANGED <<current_module_package, database_connection, pum_config, ui,
                   cancel_timer, gui_block, task, worker, db, msg, ops_started, run>>

EngineNext ==
    \/ \E operation \in {"install", "upgrade", "uninstall"}, cfg \in ApiConfigs,
          parameters \in ParamInputs, options \in ApiOptions :
          ApiStart(operation, cfg, parameters, options)
    \/ ApiCancel
    \/ ApiResult
    \/ WorkerValidate
    \/ WorkerUnitDone

\* The engine under any sequence of direct calls.
EngineSpec == Init /\ [][EngineNext]_vars

Next ==
    \/ \E p \in Packages : SetModulePackage(p)
    \/ ClearModulePackage
    \/ Close
    \/ \E c \in Connections \cup {None} : SetDatabaseConnection(c)
    \/ ToggleBetaTesting
    \/ InstallClicked
    \/ UpgradeClicked
    \/ UpgradeBlockExit
    \/ UninstallClicked
    \/ RolesClicked
    \/ DropAppClicked
    \/ RecreateAppClicked
    \/ CancelClicked
    \/ OnCancelTimeout
    \/ OnOperationFinished
    \/ WorkerValidate
    \/ WorkerUnitDone
    \/ \E p \in Packages, v \in Versions : ExternalInstall(p, v)

Spec == Init /\ [][Next]_vars

\* ---------------------------------------------- RolesManageDialog handlers
\* The variables a handler of the dialog leaves alone.
DialogUnchanged ==
    UNCHANGED <<current_module_package, pum_config, database_connection, cancel_timer,
                gui_block, task, worker, signals, ops_started, run>>

\* The try/except of a handler around a RoleManager call with commit=True:
\* on success the change is committed, a message shown and the tree
\* refreshed; on an exception an error is shown, and only
\* _on_create_login_role rolls the session back.
RoleCall(call, names, after, done, failed, rolls_back) ==
    /\ database_connection # None
    /\ IF RoleError(db.pending.roles, call, names) = ""
       THEN /\ db' = Commit([db EXCEPT !.pending.roles = after])
            /\ ui' = Refresh(db')
            /\ msg' = done
       ELSE /\ db' = IF rolls_back THEN Rollback(db) ELSE Begin(db)
            /\ ui' = ui
            /\ msg' = failed
    /\ DialogUnchanged

\* The items of the tree with a context menu on configured roles: a row of
\* an existing module role (roles = the declared role of the row) or a
\* group header (roles = {} for roles=None).
MenuTargets(u) ==
    {[roles |-> {DeclaredRole(row.name)},
      suffix |-> IF row \in u.specific THEN CHOOSE s \in Suffixes : TRUE ELSE "",
      item |-> row.name] :
        row \in {x \in u.generic \cup u.specific : x.status # "missing"}}
    \cup (IF u.generic # {} THEN {[roles |-> {}, suffix |-> "", item |-> "group"]} ELSE {})
    \cup (IF u.specific # {}
          THEN {[roles |-> {}, suffix |-> s, item |-> "group"] : s \in Suffixes} ELSE {})

\* _fetch_login_roles(): the login roles but the declared ones.
FetchLoginRoles(r) == LoginRoles(r) \ ExpectedRoles

\* _on_create_grant_roles().
OnCreateGrantRoles(suffix) ==
    RoleCall("create_roles", TargetRoles({}, suffix),
             CreateRoles(db.pending.roles, suffix, TRUE),
             "roles_created", "create_roles_failed", FALSE)

\* _on_create_login_role(), with the name typed.
OnCreateLoginRole(name) ==
    RoleCall("create_login_role", {name}, CreateLoginRole(db.pending.roles, name),
             "login_role_created", "create_login_role_failed", TRUE)

\* _grant_to(), chosen from the menu of a role row or of a group header and
\* confirmed.
DialogGrantTo(target, to) ==
    /\ target \in MenuTargets(ui)
    /\ to \in FetchLoginRoles(db.pending.roles)
    /\ RoleCall("grant_to", TargetRoles(target.roles, target.suffix) \cup {to},
                GrantTo(db.pending.roles, to, target.roles, target.suffix),
                "granted", "grant_failed", FALSE)

\* _revoke_from(), offered on a role row for the members of that role.
DialogRevokeFrom(target, from_role) ==
    /\ target \in MenuTargets(ui) /\ target.roles # {}
    /\ from_role \in MembersOf(db.pending.roles, target.item)
    /\ RoleCall("revoke_from", TargetRoles(target.roles, target.suffix) \cup {from_role},
                RevokeFrom(db.pending.roles, from_role, target.roles, target.suffix),
                "revoked", "revoke_failed", FALSE)

\* _revoke_roles().
RevokeRoles(target) ==
    /\ target \in MenuTargets(ui)
    /\ RoleCall("revoke_permissions", TargetRoles(target.roles, target.suffix),
                RevokePermissions(db.pending.roles, target.roles, target.suffix),
                "permissions_revoked", "revoke_permissions_failed", FALSE)

\* _drop_roles().
DialogDropRoles(target) ==
    /\ target \in MenuTargets(ui)
    /\ RoleCall("drop_roles", TargetRoles(target.roles, target.suffix),
                DropRoles(db.pending.roles, target.roles, target.suffix),
                "roles_dropped", "drop_roles_failed", FALSE)

\* _drop_login_role(), offered on the rows of the grantee and login groups.
DialogDropLoginRole(name) ==
    /\ name \in ui.grantee \cup ui.login
    /\ RoleCall("drop_login_role", {name}, DropLoginRole(db.pending.roles, name),
                "login_role_dropped", "drop_login_role_failed", FALSE)

\* The catalogs the dialog is opened on: any combination of existence,
\* login attribute, schema level and membership of the roles.
MemberPairs ==
    {<<"alice", "viewer">>, <<"ext", "viewer_s1">>, <<"viewer", "viewer_s1">>}
RoleStates ==
    {r \in [names : SUBSET RoleNames, login : SUBSET (OtherRoles \cup {"viewer"}),
            access : [RoleNames -> Levels], member : SUBSET MemberPairs] :
        /\ r.login \subseteq r.names
        /\ \A n \in RoleNames \ r.names : r.access[n] = "none"
        /\ \A m \in r.member : m[1] \in r.names /\ m[2] \in r.names}

\* The dialog opened on a connection, with the inventory its caller read.
RolesInit ==
    /\ current_module_package = None
    /\ database_connection \in Connections
    /\ pum_config = None
    /\ cancel_timer = FALSE
    /\ gui_block = "none"
    /\ task = InitialTask
    /\ worker = IdleWorker
    /\ signals = << >>
    /\ \E r \in RoleStates :
          LET d == [EmptyDb EXCEPT !.roles = r]
          IN  db = [committed |-> d, pending |-> d, tx_open |-> FALSE]
    /\ ui = Refresh(db)
    /\ msg = ""
    /\ ops_started = 0
    /\ run = NoRun

RolesNext ==
    \/ \E suffix \in {""} \cup Suffixes : OnCreateGrantRoles(suffix)
    \/ \E name \in OtherRoles : OnCreateLoginRole(name)
    \/ \E target \in MenuTargets(ui), to \in OtherRoles : DialogGrantTo(target, to)
    \/ \E target \in MenuTargets(ui), from_role \in RoleNames :
          DialogRevokeFrom(target, from_role)
    \/ \E target \in MenuTargets(ui) : RevokeRoles(target)
    \/ \E target \in MenuTargets(ui) : DialogDropRoles(target)
    \/ \E name \in RoleNames : DialogDropLoginRole(name)

\* The roles dialog under any sequence of its actions.
RolesSpec == RolesInit /\ [][RolesNext]_vars

\* ------------------------- InstallDialog, UpgradeDialog, RolesDialog, RolesWidget
\* The sources a module package can come from: ModuleVersion.Type, and the
\* prerelease flag that only a release parsed from its payload can carry.
PackageSources ==
    { [type |-> t, prerelease |-> FALSE] : t \in {"release", "branch", "pull_request", "zip"} }
        \cup { [type |-> "release", prerelease |-> TRUE] }

\* InstallDialog.__configure_beta_testing_checkbox(): <<checked, enabled>>.
InstallDialogConfigureBetaTestingCheckbox(module_package) ==
    IF module_package.type = "zip" THEN <<TRUE, TRUE>>
    ELSE IF \/ module_package.type = "branch"
            \/ module_package.type = "pull_request"
            \/ module_package.prerelease
         THEN <<TRUE, FALSE>>
    ELSE <<FALSE, FALSE>>

\* UpgradeDialog.__configure_beta_testing_checkbox(): <<checked, enabled>>.
UpgradeDialogConfigureBetaTestingCheckbox(module_package) ==
    IF module_package.type = "zip" THEN <<TRUE, TRUE>>
    ELSE IF \/ module_package.type = "branch"
            \/ module_package.type = "pull_request"
            \/ module_package.prerelease
         THEN <<TRUE, FALSE>>
    ELSE <<FALSE, FALSE>>

\* The characters of a suffix text, and the texts a user types.
MaxSuffixLen == 2
SuffixTexts == UNION { [1..n -> {" ", "s"}] : n \in 0..MaxSuffixLen }

\* str.strip(): the text without its leading and trailing blanks.
RECURSIVE Strip(_)
Strip(text) ==
    IF text = << >> THEN << >>
    ELSE IF Head(text) = " " THEN Strip(Tail(text))
    ELSE IF text[Len(text)] = " " THEN Strip(SubSeq(text, 1, Len(text) - 1))
    ELSE text

\* RolesWidget.__init__(): generic checked, specific unchecked, suffix edit
\* empty and disabled, grant checkbox unchecked and disabled.
RolesWidgetInit ==
    [generic |-> TRUE, specific |-> FALSE, suffix |-> << >>, suffix_enabled |-> FALSE,
     grant_checked |-> FALSE, grant_enabled |-> FALSE]

\* RolesWidget._on_generic_toggled(checked), after the checkbox changed.
OnGenericToggled(w, checked) ==
    LET w1 == [w EXCEPT !.generic = checked,
                        !.grant_enabled = checked /\ w.specific]
    IN  IF ~checked THEN [w1 EXCEPT !.grant_checked = FALSE] ELSE w1

\* Variant of _on_specific_toggled that leaves the grant checkbox alone.
OnSpecificToggledKeepsGrant(w, checked) ==
    [w EXCEPT !.specific = checked, !.suffix_enabled = checked]

\* RolesWidget._on_specific_toggled(checked), after the checkbox changed.
OnSpecificToggled(w, checked) ==
    LET w1 == [w EXCEPT !.specific = checked,
                        !.suffix_enabled = checked,
                        !.grant_enabled = checked /\ w.generic]
    IN  IF ~checked THEN [w1 EXCEPT !.grant_checked = FALSE] ELSE w1

\* RolesWidget.has_selection().
HasSelection(w) ==
    IF w.specific /\ Strip(w.suffix) = << >> THEN FALSE
    ELSE w.generic \/ w.specific

\* RolesWidget.roles_options(); the suffix is None or a text.
RolesWidgetOptions(w) ==
    [roles |-> TRUE,
     grant |-> TRUE,
     suffix |-> IF w.specific /\ Strip(w.suffix) # << >> THEN [text |-> Strip(w.suffix)] ELSE None,
     create_generic |-> w.generic,
     grant_to_specific |-> w.grant_checked]

\* RolesGroupBox.roles_options(): the groupbox check switches roles off.
RolesGroupBoxOptions(checked, w) ==
    IF ~checked THEN [roles |-> FALSE, grant |-> FALSE] ELSE RolesWidgetOptions(w)

\* A dialog that holds a RolesWidget, after its constructor: InstallDialog
\* and UpgradeDialog with the beta checkbox configured from the package and
\* the widget inside a checked RolesGroupBox, RolesDialog with the widget
\* alone; every button enabled.
NewDialog(kind, module_package) ==
    LET beta == IF kind = "install"
                THEN InstallDialogConfigureBetaTestingCheckbox(module_package)
                ELSE IF kind = "upgrade"
                THEN UpgradeDialogConfigureBetaTestingCheckbox(module_package)
                ELSE <<FALSE, FALSE>>
    IN  [dialog |-> kind, result |-> "open",
         beta_checked |-> beta[1], beta_enabled |-> beta[2],
         roles_checked |-> TRUE, widget |-> RolesWidgetInit, ok_enabled |-> TRUE]

\* selectionChanged reaches RolesDialog._update_ok_button only.
SelectionChanged(u, w) ==
    [u EXCEPT !.widget = w,
              !.ok_enabled = IF u.dialog = "roles" THEN HasSelection(w) ELSE @]

FormUnchanged ==
    UNCHANGED <<current_module_package, pum_config, database_connection, cancel_timer,
                gui_block, task, worker, signals, db, ops_started, run>>

\* The user toggles an enabled beta testing checkbox of a dialog.
BetaToggled ==
    /\ ui.result = "open" /\ ui.dialog # "roles" /\ ui.beta_enabled
    /\ ui' = [ui EXCEPT !.beta_checked = ~@]
    /\ UNCHANGED msg /\ FormUnchanged

\* The user checks or unchecks the RolesGroupBox.
GroupBoxToggled ==
    /\ ui.result = "open" /\ ui.dialog # "roles"
    /\ ui' = [ui EXCEPT !.roles_checked = ~@]
    /\ UNCHANGED msg /\ FormUnchanged

GenericToggled ==
    /\ ui.result = "open" /\ ui.roles_checked
    /\ ui' = SelectionChanged(ui, OnGenericToggled(ui.widget, ~ui.widget.generic))
    /\ UNCHANGED msg /\ FormUnchanged

SpecificToggled ==
    /\ ui.result = "open" /\ ui.roles_checked
    /\ ui' = SelectionChanged(ui, OnSpecificToggled(ui.widget, ~ui.widget.specific))
    /\ UNCHANGED msg /\ FormUnchanged

\* The grant checkbox has no slot: a click on it, when enabled, flips it.
GrantToggled ==
    /\ ui.result = "open" /\ ui.roles_checked /\ ui.widget.grant_enabled
    /\ ui' = [ui EXCEPT !.widget.grant_checked = ~@]
    /\ UNCHANGED msg /\ FormUnchanged

\* The user edits the suffix: _on_suffix_changed emits selectionChanged.
SuffixEdited(text) ==
    /\ ui.result = "open" /\ ui.roles_checked /\ ui.widget.suffix_enabled /\ text # ui.widget.suffix
    /\ ui' = SelectionChanged(ui, [ui.widget EXCEPT !.suffix = text])
    /\ UNCHANGED msg /\ FormUnchanged

\* accept(): with beta testing checked the warning must be answered Yes.
DialogAccept(reply) ==
    /\ ui.result = "open" /\ ui.ok_enabled
    /\ ui' = IF ui.dialog # "roles" /\ ui.beta_checked /\ reply # "Yes"
             THEN ui ELSE [ui EXCEPT !.result = "accepted"]
    /\ UNCHANGED msg /\ FormUnchanged

DialogReject ==
    /\ ui.result = "open"
    /\ ui' = [ui EXCEPT !.result = "rejected"]
    /\ UNCHANGED msg /\ FormUnchanged

\* The caller reads beta_testing() and roles_options() of the dialog.
OptionsRead ==
    /\ ui.result # "rejected"
    /\ msg' = [beta_testing |-> ui.beta_checked,
               roles_options |-> IF ui.dialog # "roles"
                                 THEN RolesGroupBoxOptions(ui.roles_checked, ui.widget)
                                 ELSE RolesWidgetOptions(ui.widget)]
    /\ msg' # msg
    /\ UNCHANGED ui /\ FormUnchanged

FormInit ==
    /\ pum_config = None
    /\ database_connection = None
    /\ cancel_timer = FALSE
    /\ gui_block = "none"
    /\ task = InitialTask
    /\ worker = IdleWorker
    /\ signals = << >>
    /\ db = [committed |-> EmptyDb, pending |-> EmptyDb, tx_open |-> FALSE]
    /\ \E kind \in {"install", "upgrade", "roles"}, module_package \in PackageSources :
          /\ current_module_package = IF kind # "roles" THEN module_package ELSE None
          /\ ui = NewDialog(kind, module_package)
    /\ msg = None
    /\ ops_started = 0
    /\ run = NoRun

FormNext ==
    \/ BetaToggled
    \/ GroupBoxToggled
    \/ GenericToggled
    \/ SpecificToggled
    \/ GrantToggled
    \/ \E text \in SuffixTexts : SuffixEdited(text)
    \/ \E reply \in {"Yes", "No"} : DialogAccept(reply)
    \/ DialogReject
    \/ OptionsRead

\* A dialog under any sequence of user actions and reads of its options.
FormSpec == FormInit /\ [][FormNext]_vars


\* ================================================================ properties
\* The version of each change unit a run completed, in completion order.
AppliedVersions == [i \in DOMAIN run.applied |-> run.applied[i][1]]

\* C1: an upgrade asked for is run as an upgrade, and one that commits from
\* recorded baseline A to a target B > A has executed exactly the units of
\* the version steps A < v <= B, each once, in ascending version order, and
\* leaves the ledger baseline at B.
C1_UpgradeAppliesPendingSteps ==
    /\ (run.requested = "upgrade" /\ run.outcome # "none") => run.op = "upgrade"
    /\ (run.op = "upgrade" /\ run.outcome = "committed"
            /\ run.before.ledger # None /\ run.before.ledger.baseline < run.target)
       => LET A == run.before.ledger.baseline
              B == run.target
          IN  /\ Len(run.applied) = (B - A) * UnitsPerStep
              /\ {AppliedVersions[i] : i \in DOMAIN run.applied} = (A + 1)..B
              /\ \A i, j \in DOMAIN run.applied :
                    i < j => /\ AppliedVersions[i] <= AppliedVersions[j]
                             /\ run.applied[i] # run.applied[j]
              /\ db.committed.ledger # None
              /\ db.committed.ledger.baseline = B

\* An upgrade over two version steps has committed.
C1_Witness ==
    /\ run.requested = "upgrade" /\ run.op = "upgrade" /\ run.outcome = "committed"
    /\ run.before.ledger # None /\ run.before.ledger.baseline = 1
    /\ run.target = MaxVersion
    /\ Len(run.applied) = (MaxVersion - 1) * UnitsPerStep

\* A run has just ended with the given outcome.
Ends(outcome) == run'.outcome = outcome /\ run.outcome # outcome

\* C2: when a change unit of an install fails, the committed database and
\* the session are what they were when the install began: no ledger record
\* written, no object of any step kept, also of the steps already applied.
C2_InstallAllOrNothing ==
    [][(Ends("failed") /\ run'.op = "install")
       => /\ db'.committed = run'.before
          /\ db'.pending = run'.before
          /\ ~db'.tx_open
          /\ \A i \in DOMAIN run'.applied :
                run'.applied[i] \in db'.committed.objects
                   => run'.applied[i] \in run'.before.objects
          /\ (run'.before.ledger = None => db'.committed.ledger = None)]_vars

\* An install into an empty database has failed after completing a step.
C2_Witness ==
    /\ run.op = "install" /\ run.outcome = "failed"
    /\ run.before = EmptyDb
    /\ Len(run.applied) >= 1
    /\ db.committed = EmptyDb

\* C3: __startOperation is called only when the operation task is not
\* running.
C3_StartOnlyWhenNotRunning ==
    [][ops_started' # ops_started => ~IsRunning(worker)]_vars

\* C4: while the worker is running the interactive thread holds no
\* transaction block on the connection.
C4_NoGuiBlockWhileRunning == IsRunning(worker) => gui_block = "none"

\* C5: when a run ends cancelled, the database is in the state it had when
\* the operation began.
C5_CancelRestoresDatabase ==
    [][Ends("cancelled")
       => /\ db'.committed = run'.before
          /\ db'.pending = run'.before]_vars

\* The thread takes the arguments of a start_* call: the step of
\* WorkerValidate.
TakesArguments == task.args # None /\ task'.args = None

\* C6: an install that finds a ledger record, without
\* allow_multiple_modules, ends with AlreadyInstalledError before any unit
\* runs and leaves the committed database and the session as they were.
C6_SecondInstallRejected ==
    [][(TakesArguments /\ task.operation = "install" /\ Exists(db)
            /\ ~task.args.options.allow_multiple_modules)
       => /\ signals' = Append(signals, [success |-> FALSE,
                                         error |-> "AlreadyInstalledError"])
          /\ db' = db
          /\ ~IsRunning(worker')
          /\ run'.applied = << >>]_vars

\* An install on a database that holds a record has been rejected.
C6_Witness ==
    /\ run.op = "install" /\ run.outcome = "rejected"
    /\ run.before.ledger # None
    /\ db.committed = run.before
    /\ signals # << >>
    /\ signals[Len(signals)].error = "AlreadyInstalledError"

\* C7: an upgrade that passes its checks with the recorded baseline equal to
\* the target ends with success without executing a unit and leaves the
\* ledger record and the objects as they were; no upgrade ever completes a
\* unit of a version that is not above the baseline it started from.
C7_UpgradeAtTargetIsNoOp ==
    [][/\ (TakesArguments /\ task.operation = "upgrade" /\ ~task.canceled
              /\ Exists(db)
              /\ MigrationDetails(db).module = task.args.config.module
              /\ (MigrationDetails(db).beta_testing => task.args.options.force)
              /\ Baseline(db) = task.args.config.last_version)
          => /\ signals' = Append(signals, [success |-> TRUE, error |-> ""])
             /\ run'.applied = << >>
             /\ ~IsRunning(worker')
             /\ db'.committed = db.pending
             /\ db'.pending = db.pending
       /\ (run'.op = "upgrade" /\ run'.before.ledger # None)
          => \A i \in DOMAIN run'.applied :
                run'.applied[i][1] > run'.before.ledger.baseline]_vars

\* An upgrade of a module already at the target version has ended with
\* success and an unchanged ledger record.
C7_Witness ==
    /\ run.op = "upgrade" /\ run.outcome = "committed"
    /\ run.before.ledger # None
    /\ run.before.ledger.baseline = run.target
    /\ run.applied = << >>
    /\ db.committed = run.before

\* The finished handler takes the result of an install that committed.
InstallResultHandled ==
    /\ signals # << >> /\ signals' = Tail(signals)
    /\ Head(signals).success
    /\ run.op = "install" /\ run.outcome = "committed"

\* C8: when the widget handles the success of an install, the baseline read
\* from the database is the last version of the installed config and the
\* refresh leaves the maintain page shown, not the install or upgrade page
\* and not the version-mismatch mode.
C8_InstallShowsMaintainPage ==
    [][InstallResultHandled
         => /\ Exists(db) /\ Baseline(db) = run.target
            /\ ui'.stacked_visible /\ ui'.page = "maintain" /\ ~ui'.mismatch]_vars

\* __startOperation is called for operation.
Starts(operation) == ops_started' # ops_started /\ task'.operation = operation

\* C9: the widget starts an upgrade with force set exactly when the installed
\* record is beta_testing; declining the beta-upgrade confirmation starts
\* nothing and changes nothing; and no upgrade executes units on a
\* beta_testing record without force.
C9_BetaUpgradeOnlyForced ==
    [][/\ (Starts("upgrade") /\ task'.args # None)
          => task'.args.options.force
                = (Exists(db) /\ MigrationDetails(db).beta_testing)
       /\ (msg' = "beta_upgrade_declined" /\ msg # msg')
          => UNCHANGED <<current_module_package, database_connection, pum_config,
                         ui, cancel_timer, gui_block, task, worker, signals, db,
                         ops_started, run>>
       /\ (worker'.pc = "unit" /\ worker'.op = "upgrade"
              /\ run'.before.ledger # None /\ run'.before.ledger.beta_testing)
          => worker'.args.options.force]_vars

\* A forced upgrade of a beta_testing installation is executing.
C9_Witness ==
    /\ worker.pc = "unit" /\ worker.op = "upgrade"
    /\ worker.args.options.force
    /\ run.before.ledger # None /\ run.before.ledger.beta_testing

\* C10: the widget starts an upgrade only when the ledger holds a record
\* whose module id is the config's module id.
C10_UpgradeStartedOnlyOnMatchingRecord ==
    [][Starts("upgrade")
         => /\ Exists(db)
            /\ MigrationDetails(db).module = pum_config.module]_vars

\* The messages of the checks a click handler makes before anything else.
PreconditionMessages ==
    {"select_package", "select_database", "no_config", "config_module_mismatch",
     "no_uninstall"}

\* C11: a click handler that reports a missing package, connection or config,
\* a config whose module id is not the selected module's (install, upgrade)
\* or a config without uninstall hooks (uninstall) starts no operation and
\* leaves the connection as it was, no statement sent; and no operation is
\* ever started while one of these conditions holds.
C11_PreconditionErrorsBeforeWork ==
    [][/\ (msg' \in PreconditionMessages /\ msg' # msg)
          => UNCHANGED <<current_module_package, database_connection, pum_config,
                         ui, cancel_timer, gui_block, task, worker, signals, db,
                         ops_started, run>>
       /\ \A operation \in Operations :
             Starts(operation)
             => /\ MissingError(current_module_package, database_connection,
                                pum_config) = ""
                /\ operation \in {"install", "upgrade"}
                   => pum_config.module = current_module_package.id
                /\ operation = "uninstall" => pum_config.uninstall]_vars

\* The uninstall handler has reported missing uninstall hooks on a
\* connection without a transaction and with no operation started.
C11_Witness ==
    /\ msg = "no_uninstall"
    /\ ~db.tx_open /\ ~IsRunning(worker) /\ ops_started = 0

\* C12: every ledger read of the widget is made inside a transaction block,
\* so a handler or refresh that starts no operation, running while no worker
\* is running, leaves a connection that had no transaction without one.
C12_ReadsLeaveNoOpenTransaction ==
    [][(~IsRunning(worker) /\ ~db.tx_open /\ ops_started' = ops_started
           /\ gui_block' = "none")
         => ~db'.tx_open]_vars

\* C13: while the version-mismatch mode of the maintain page is shown, the
\* roles, drop-app, recreate-app and uninstall buttons of that page are
\* disabled.
C13_MismatchKeepsActionsDisabled ==
    (ui.stacked_visible /\ ui.page = "maintain" /\ ui.mismatch)
    => /\ ~ui.roles_btn
       /\ ~ui.drop_app_btn
       /\ ~ui.recreate_app_btn
       /\ ~ui.uninstall_button_maintain

\* A step that ends with __updateModuleInfo: a setter that changed the
\* package or the connection, or the finished handler after a success.
Refreshed ==
    \/ current_module_package' # current_module_package
    \/ database_connection' # database_connection
    \/ /\ signals # << >> /\ signals' = Tail(signals)
       /\ Head(signals).success /\ msg' = "success"

\* C14: after a refresh of a widget that holds a package, a connection and a
\* config, the visible page follows from the ledger the connection shows:
\* no record, install page; last version above the baseline, upgrade page;
\* equal, maintain page with its actions enabled; below, maintain page in
\* version-mismatch mode, shown as a page and not as the hidden error state.
C14_PageFollowsLedger ==
    [][(Refreshed /\ current_module_package' # None /\ database_connection' # None
            /\ pum_config' # None)
         => /\ ui'.stacked_visible /\ ui'.stacked_enabled
            /\ IF ~Exists(db') THEN ui'.page = "install"
               ELSE IF pum_config'.last_version > Baseline(db')
               THEN ui'.page = "upgrade"
               ELSE IF pum_config'.last_version = Baseline(db')
               THEN /\ ui'.page = "maintain" /\ ~ui'.mismatch
                    /\ ui'.roles_btn /\ ui'.drop_app_btn /\ ui'.recreate_app_btn
                    /\ ui'.uninstall_button_maintain
               ELSE ui'.page = "maintain" /\ ui'.mismatch]_vars

\* The version-mismatch mode is shown for a selected version older than the
\* installed one.
C14_Witness ==
    /\ ui.stacked_visible /\ ui.page = "maintain" /\ ui.mismatch
    /\ pum_config # None /\ Exists(db)
    /\ pum_config.last_version < Baseline(db)

\* The finished handler takes a result without success.
FailureHandled ==
    /\ signals # << >> /\ signals' = Tail(signals)
    /\ ~Head(signals).success

\* The forced-termination warning is shown only by a cancel timeout that
\* terminates a running operation.
TerminationMessageOnlyOnTermination ==
    (msg' = "terminated" /\ msg # "terminated")
    => cancel_timer /\ IsRunning(worker) /\ ~IsRunning(worker')

\* C15 as stated: every result without success, a cancelled operation's
\* included, is reported as a failed operation, and only a forced
\* termination is reported as one.
C15_EveryEndWithoutSuccessHasMessage ==
    [][/\ FailureHandled => msg' = "failed"
       /\ TerminationMessageOnlyOnTermination]_vars

\* C15 amended: an operation that is rejected or fails ends with a result
\* carrying an error message and is reported as a failed operation; an
\* operation that is cancelled ends with a result without error message and
\* is reported with no message; only a forced termination is reported as
\* one.
C15_FailureMessages ==
    [][/\ (Ends("failed") \/ Ends("rejected"))
          => /\ signals' # << >>
             /\ ~signals'[Len(signals')].success
             /\ signals'[Len(signals')].error # ""
       /\ Ends("cancelled")
          => /\ signals' # << >>
             /\ signals'[Len(signals')] = [success |-> FALSE, error |-> ""]
       /\ FailureHandled
          => msg' = (IF Head(signals).error # "" THEN "failed" ELSE "")
       /\ TerminationMessageOnlyOnTermination]_vars

\* The result of a cancelled operation is waiting for the finished handler.
C15_Witness ==
    /\ run.outcome = "cancelled"
    /\ signals # << >>
    /\ Head(signals) = [success |-> FALSE, error |-> ""]

\* C16: an upgrade that commits leaves the standard parameter values of the
\* ledger record as they were recorded before it, whatever values it was
\* passed; of the parameters only the app-only values differ afterwards.
C16_UpgradeKeepsStandardParameters ==
    [][(Ends("committed") /\ run'.op = "upgrade")
         => /\ run'.before.ledger # None
            /\ db'.committed.ledger # None
            /\ db'.committed.ledger.parameters.std
                 = run'.before.ledger.parameters.std
            /\ db'.committed.ledger.installed_date
                 = run'.before.ledger.installed_date]_vars

\* An upgrade that was passed other parameter values than the recorded ones
\* has committed: the app-only value is the new one, the standard value the
\* recorded one.
C16_Witness ==
    /\ run.op = "upgrade" /\ run.outcome = "committed"
    /\ run.before.ledger # None
    /\ db.committed.ledger # None
    /\ db.committed.ledger.parameters.app # run.before.ledger.parameters.app
    /\ db.committed.ledger.parameters.std = run.before.ledger.parameters.std

\* Every declared role exists in the catalog and holds at least its
\* declared level on the schema.
RolesProvisioned(r) ==
    \A g \in ExpectedRoles :
        g \in r.names /\ Satisfied(r.access[g], RoleDefinitions[g])

\* C19: when the roles operation, or an install started with roles = true,
\* commits, every role declared in the config exists in the committed
\* database and holds at least its declared level on the schema, whether
\* the role did not exist before, existed without grants or existed with
\* more than its declared level.
C19_RolesProvisioned ==
    [][(/\ Ends("committed")
        /\ worker.pc = "unit"
        /\ \/ run'.op = "roles"
           \/ run'.op = "install" /\ worker.args.options.roles)
         => RolesProvisioned(db'.committed.roles)]_vars

\* The roles operation committed on a database whose declared role existed
\* without grants: the role now satisfies its declared level.
C19_Witness ==
    /\ run.op = "roles" /\ run.outcome = "committed"
    /\ "viewer" \in run.before.roles.names
    /\ run.before.roles.access["viewer"] = "none"
    /\ RolesProvisioned(db.committed.roles)

\* The database roles the inventory considers: the configured ones, the
\* login roles and the roles with schema access.
Considered(r) ==
    {n \in r.names : n \in ConfiguredNames \/ n \in r.login \/ r.access[n] # "none"}

\* The groups of the dialog's tree in which a database role has a row.
GroupsListing(u, n) ==
    {g \in {"generic", "specific", "grantee", "unknown", "login"} :
        IF g \in {"generic", "specific"}
        THEN \E row \in u[g] : row.name = n /\ row.status # "missing"
        ELSE n \in u[g]}

\* C17: roles_inventory puts every database role it considers into exactly
\* one of the categories configured, grantee, unknown and login candidate:
\* the four categories are pairwise disjoint, together they are the roles
\* considered, their sizes sum to the number of roles considered, and the
\* dialog lists each such role in exactly one group of its tree.
C17_InventoryIsPartition ==
    LET r == db.pending.roles
        result == RolesInventory(r)
        cats == <<{rs.name : rs \in result.configured_roles},
                  {rs.name : rs \in result.grantee_roles},
                  {rs.name : rs \in result.unknown_roles},
                  result.other_login_roles>>
    IN  /\ \A i, j \in DOMAIN cats : i # j => cats[i] \cap cats[j] = {}
        /\ UNION {cats[i] : i \in DOMAIN cats} = Considered(r)
        /\ Cardinality(cats[1]) + Cardinality(cats[2]) + Cardinality(cats[3])
             + Cardinality(cats[4]) = Cardinality(Considered(r))
        /\ \A n \in Considered(r) : Cardinality(GroupsListing(ui, n)) = 1

\* A grant made in the dialog produced a grantee that holds schema access
\* of its own, next to a configured role and an unknown role.
C17_Witness ==
    /\ msg = "granted"
    /\ \E n \in ui.grantee : db.pending.roles.access[n] # "none"
    /\ ui.unknown # {}
    /\ \E row \in ui.specific : row.status # "missing"

\* C18: create_roles is idempotent: from any catalog, for every suffix and
\* grant argument, the call does not fail, a second call with the same
\* arguments does not fail on the roles the first one left, and it leaves
\* the roles, memberships and schema grants of the first call unchanged.
C18_CreateRolesIdempotent ==
    \A suffix \in {""} \cup Suffixes, grant \in BOOLEAN :
        LET r == db.pending.roles
            once == CreateRoles(r, suffix, grant)
            created == ExpectedRoles \cup TargetRoles({}, suffix)
        IN  /\ RoleError(r, "create_roles", created) = ""
            /\ RoleError(once, "create_roles", created) = ""
            /\ CreateRoles(once, suffix, grant) = once
            /\ created \subseteq once.names

\* create_roles ran from the dialog on a catalog that already had the
\* suffixed role with more than its declared level and with a member: the
\* role kept both and gained the generic role as a member.
C18_Witness ==
    /\ msg = "roles_created"
    /\ db.committed.roles.access["viewer_s1"] = "write"
    /\ {<<"ext", "viewer_s1">>, <<"viewer", "viewer_s1">>} \subseteq db.committed.roles.member
    /\ db.committed.roles.access["viewer"] = "none"

\* The finished handler takes the result of an uninstall that committed.
UninstallResultHandled ==
    /\ signals # << >> /\ signals' = Tail(signals)
    /\ Head(signals).success
    /\ run.op = "uninstall" /\ run.outcome = "committed"

\* C20: when an uninstall commits, the committed database holds no object
\* and no ledger record, exists() is false and an install passes its
\* precondition; when the widget handles that success it shows the install
\* page; when an uninstall hook fails, the committed database and the
\* session are what they were when the uninstall began.
C20_UninstallRemovesModule ==
    [][/\ (Ends("committed") /\ run'.op = "uninstall")
          => /\ db'.committed.objects = {}
             /\ db'.committed.ledger = None
             /\ ~Exists(db')
             /\ \A cfg \in ApiConfigs :
                   PreconditionError("install", cfg, db', NoOptions) = ""
       /\ UninstallResultHandled
          => (~Exists(db') => ui'.stacked_visible /\ ui'.page = "install")
       /\ (Ends("failed") /\ run'.op = "uninstall")
          => /\ db'.committed = run'.before
             /\ db'.pending = run'.before]_vars

\* The widget under fair scheduling: the worker thread runs to its next step,
\* the event loop delivers a queued finished signal, and a click handler
\* that started an operation returns.
LiveSpec ==
    /\ Spec
    /\ WF_vars(WorkerValidate)
    /\ WF_vars(WorkerUnitDone)
    /\ WF_vars(OnOperationFinished)
    /\ WF_vars(UpgradeBlockExit)

\* The outcomes an operation reports: committed, rolled back (a failed unit
\* or a refused precondition) and cancelled.
TerminalOutcomes == {"committed", "failed", "rejected", "cancelled"}

\* The thread of the task stops.
RunEnds == IsRunning(worker) /\ ~IsRunning(worker')

\* The widget takes a queued result.
ResultHandled == signals # << >> /\ signals' = Tail(signals)

\* C21: every operation the widget starts gets a run of its own, which
\* eventually ends in exactly one of the outcomes committed, rolled back or
\* cancelled; the run emits exactly one (success, error_message) result, with
\* success exactly for committed; every result is eventually handled by the
\* widget, and handling it leaves the UI out of the in-progress state.
C21_EveryOperationEndsOnce ==
    /\ [][/\ \A operation \in Operations : Starts(operation) => ~IsRunning(worker)
          /\ RunEnds
             => /\ run'.outcome \in TerminalOutcomes
                /\ Len(signals') = Len(signals) + 1
                /\ signals'[Len(signals')].success = (run'.outcome = "committed")
          /\ (~RunEnds /\ ~ResultHandled) => signals' = signals
          /\ ResultHandled => ~ui'.cancel_visible]_vars
    /\ (IsRunning(worker) ~> ~IsRunning(worker))
    /\ (signals # << >> ~> signals = << >>)

\* The config the running operation was started with: the thread holds it
\* once it has taken its arguments, the task object before.
InFlightConfig ==
    IF worker.pc = "unit" THEN worker.args.config
    ELSE IF task.args # None THEN task.args.config ELSE None

\* setModulePackage, clearModulePackage and close call cleanup_hook_imports
\* on the config the widget holds, when it holds one.
CleanupHookImports ==
    /\ pum_config # None
    /\ \/ \E p \in Packages : SetModulePackage(p)
       \/ ClearModulePackage
       \/ Close

\* C22: the widget does not call cleanup_hook_imports on a PumConfig while
\* the task that was started with that config is running, in
\* setModulePackage, clearModulePackage and close alike.
C22_NoCleanupOfConfigInFlight ==
    [][CleanupHookImports => ~(IsRunning(worker) /\ InFlightConfig = pum_config)]_vars

\* The <<checked, enabled>> pairs the three copies of the checkbox
\* configuration give for a package source.
BetaConfigured(source) ==
    { ConfigureBetaTestingCheckbox(source),
      InstallDialogConfigureBetaTestingCheckbox(source),
      UpgradeDialogConfigureBetaTestingCheckbox(source) }

\* The configuration of the three checkboxes as a table over the source type.
ConfiguredBySourceType ==
    \A source \in PackageSources :
        /\ source.type = "zip" => BetaConfigured(source) = {<<TRUE, TRUE>>}
        /\ source.type \in {"branch", "pull_request"}
               => BetaConfigured(source) = {<<TRUE, FALSE>>}
        /\ source.type = "release" => BetaConfigured(source) = {<<FALSE, FALSE>>}

\* The same table with a prerelease treated like a branch or pull request.
ConfiguredBySourceAndPrerelease ==
    \A source \in PackageSources :
        /\ source.type = "zip" => BetaConfigured(source) = {<<TRUE, TRUE>>}
        /\ (source.type \in {"branch", "pull_request"} \/ source.prerelease)
               => BetaConfigured(source) = {<<TRUE, FALSE>>}
        /\ (source.type = "release" /\ ~source.prerelease)
               => BetaConfigured(source) = {<<FALSE, FALSE>>}

\* The beta_testing option an install or upgrade is started with.
StartsWithBetaTesting(flag) ==
    /\ Starts("install") \/ Starts("upgrade")
    /\ task'.args # None
    /\ task'.args.options.beta_testing = flag

C24_UninstallButtonsFollowConfig ==
    (/\ current_module_package # None
     /\ ui.uninstall_button \/ ui.uninstall_button_maintain)
        => (pum_config # None /\ pum_config.uninstall)

\* __onCancelTimeout() terminates the running thread.
Terminates == IsRunning(worker) /\ ~IsRunning(worker') /\ msg' = "terminated"

\* C25: the operation thread is forcibly terminated only by the cancel timer
\* firing while the thread is still running, and the timer is started by a
\* click on the cancel button alone; the finished callback stops the timer,
\* and a thread that has ended, cooperatively or not, is never terminated.
C25_TerminationOnlyAfterCancelTimeout ==
    [][/\ Terminates => /\ cancel_timer /\ ~cancel_timer'
                        /\ run.outcome \notin TerminalOutcomes
       /\ (~cancel_timer /\ cancel_timer')
             => /\ ui.cancel_visible /\ ui.cancel_enabled
                /\ ~ui'.cancel_enabled
                /\ task' = Cancel(task, worker)
       /\ ResultHandled => ~cancel_timer'
       /\ (msg' = "terminated" /\ msg' # msg) => Terminates]_vars

\* A cancelled operation whose thread did not stop in time was terminated.
C25_Witness ==
    /\ msg = "terminated" /\ ~IsRunning(worker) /\ ~cancel_timer
    /\ run.outcome = "terminated"

\* __onOperationFinished(success, ...) is run with success = true.
SuccessHandled == ResultHandled /\ Head(signals).success

\* The handler reaches self.signal_operationFinished.emit(): the success
\* message was built and shown and the module info refreshed.
OperationFinishedEmitted == SuccessHandled /\ msg' = "success"

\* C26: signal_operationFinished is emitted exactly once for each operation
\* that finishes with success (each success result handled leads to one
\* emission), only after the operation UI was reset and the module info
\* refreshed from the database, and never for a result without success nor
\* by a step that handles no result (termination included).
C26_FinishedSignalOncePerSuccess ==
    [][/\ SuccessHandled => OperationFinishedEmitted
       /\ OperationFinishedEmitted
             => ui' = UpdateModuleInfo(ResetOperationUI(ui), current_module_package,
                                       database_connection, pum_config, db)
       /\ (ResultHandled /\ ~Head(signals).success) => msg' # "success"
       /\ Terminates => signals' = signals]_vars

\* C28: whenever the finished callback runs with success = true the widget
\* holds a module package and a PUM config (neither is None), also after
\* clearModulePackage or setDatabaseConnection during the operation, so the
\* success message is built and the module info refreshed.
C28_SuccessFindsPackageAndConfig ==
    [][SuccessHandled => /\ current_module_package # None
                         /\ pum_config # None
                         /\ msg' = "success"]_vars

\* C29: after setModulePackage(p) the PUM config the widget holds is None
\* or the config loaded from p's own .pum.yaml; the previous package's
\* config is not kept when p has none that loads.
C29_ConfigBelongsToPackage ==
    [][\A p \in Packages :
          SetModulePackage(p) => (pum_config' = None \/ pum_config'.pkg = p.name)]_vars

\* C27: in RolesWidget, after any sequence of toggles of the generic and
\* specific checkboxes and edits of the suffix, the grant checkbox is enabled
\* if and only if the generic and the specific checkbox are both checked, and
\* it is unchecked whenever either of them is unchecked.
C27_GrantFollowsGenericAndSpecific ==
    /\ ui.widget.grant_enabled = (ui.widget.generic /\ ui.widget.specific)
    /\ ~(ui.widget.generic /\ ui.widget.specific) => ~ui.widget.grant_checked

\* The grant checkbox was checked and then unchecked by the code, because
\* the specific checkbox was unchecked while a suffix was typed.
C27_Witness ==
    /\ ui.widget.generic /\ ~ui.widget.specific
    /\ ui.widget.suffix # << >>
    /\ ~ui.widget.grant_enabled /\ ~ui.widget.grant_checked
    /\ msg # None /\ msg.roles_options.roles /\ msg.roles_options.grant_to_specific

\* C30: after any sequence of checkbox toggles and suffix edits,
\* RolesWidget.roles_options() returns grant_to_specific = true only
\* together with a suffix that is not None and create_generic = true.
C30_GrantToSpecificNeedsSuffixAndGeneric ==
    (/\ msg # None
     /\ msg.roles_options.roles
     /\ msg.roles_options.grant_to_specific)
        => (msg.roles_options.suffix # None /\ msg.roles_options.create_generic)

====
